---- MODULE Spec2Model ----
(***************************************************************************)
(* Model of src/generate_excel.py: the conversion of an OpenIntent JSON    *)
(* export into an AP-placement workbook with one sheet per floor.          *)
(*                                                                         *)
(* Text that the program takes apart or builds (floor names, sheet titles, *)
(* model strings, placement numbers, notes) is a sequence of one-character *)
(* strings.  Text that the program only copies (the header and the fixed   *)
(* default cells) is a TLA+ string.                                        *)
(***************************************************************************)
EXTENDS Integers, Sequences, FiniteSets, TLC

VARIABLES
    argv_len,           \* len(sys.argv)
    json_file,          \* what json.load finds at json_path
    pc,                 \* position of main
    aps,                \* data.get("accesspoints", [])
    by_floor,           \* the insertion-ordered defaultdict, as a list of items
    gi,                 \* position of the grouping loop in aps (1-based)
    wb,                 \* the workbook: its sheets, in order
    fi,                 \* position of the floor loop in by_floor.items()
    idx,                \* enumerate index of the row loop (1-based)
    placement_counter,  \* the global placement counter
    out_file,           \* what is stored at out_path
    exit_code,          \* exit status of the process (-1 while running)
    raised,             \* the uncaught exception, "" if none
    fn_arg,             \* argument of a function applied on its own
    fn_ret              \* its result

vars == <<argv_len, json_file, pc, aps, by_floor, gi, wb, fi, idx,
          placement_counter, out_file, exit_code, raised, fn_arg, fn_ret>>

main_vars == <<argv_len, json_file, pc, aps, by_floor, gi, wb, fi, idx,
               placement_counter, out_file, exit_code, raised>>

-----------------------------------------------------------------------------
(* Bounds of the model *)

MaxAPs == 3          \* longest access-point list of the main specification
MaxDigits == 27      \* longest integer part of a generated floor name
MaxFill == 40        \* longest free-text floor name
MaxCounter == 1100   \* largest counter value formatted on its own

-----------------------------------------------------------------------------
(* Characters and str methods *)

Lower == <<"a","b","c","d","e","f","g","h","i","j","k","l","m",
           "n","o","p","q","r","s","t","u","v","w","x","y","z">>
Upper == <<"A","B","C","D","E","F","G","H","I","J","K","L","M",
           "N","O","P","Q","R","S","T","U","V","W","X","Y","Z">>
Digit == <<"0","1","2","3","4","5","6","7","8","9">>

IsLower(c) == \E i \in 1..Len(Lower) : Lower[i] = c
IsUpper(c) == \E i \in 1..Len(Upper) : Upper[i] = c
IsCased(c) == IsLower(c) \/ IsUpper(c)
IsDigit(c) == \E i \in 1..Len(Digit) : Digit[i] = c
IsSpace(c) == c \in {" ", "\t", "\n"}

IndexIn(seq, c) == CHOOSE i \in 1..Len(seq) : seq[i] = c

ChUpper(c) == IF IsLower(c) THEN Upper[IndexIn(Lower, c)] ELSE c
ChLower(c) == IF IsUpper(c) THEN Lower[IndexIn(Upper, c)] ELSE c

\* str.upper / str.lower
StrUpper(s) == [i \in 1..Len(s) |-> ChUpper(s[i])]
StrLower(s) == [i \in 1..Len(s) |-> ChLower(s[i])]

\* str.title: a cased character is upper-cased when the character before it
\* is not cased, lower-cased otherwise
StrTitle(s) ==
    [i \in 1..Len(s) |->
        IF i > 1 /\ IsCased(s[i-1]) THEN ChLower(s[i]) ELSE ChUpper(s[i])]

\* str.strip
LeadSpaces(s) ==
    IF \A i \in 1..Len(s) : IsSpace(s[i]) THEN Len(s)
    ELSE (CHOOSE i \in 1..Len(s) :
             ~IsSpace(s[i]) /\ \A j \in 1..(i-1) : IsSpace(s[j])) - 1
TrailSpaces(s) ==
    IF \A i \in 1..Len(s) : IsSpace(s[i]) THEN Len(s)
    ELSE Len(s) - (CHOOSE i \in 1..Len(s) :
             ~IsSpace(s[i]) /\ \A j \in (i+1)..Len(s) : IsSpace(s[j]))
StrStrip(s) ==
    IF \A i \in 1..Len(s) : IsSpace(s[i]) THEN <<>>
    ELSE SubSeq(s, LeadSpaces(s) + 1, Len(s) - TrailSpaces(s))

\* s[:n]
Truncate(s, n) == SubSeq(s, 1, IF Len(s) < n THEN Len(s) ELSE n)

\* str.startswith
StartsWith(s, p) == Len(s) >= Len(p) /\ SubSeq(s, 1, Len(p)) = p

\* c in s
Contains(s, c) == \E i \in 1..Len(s) : s[i] = c

\* str.replace("C", "C-"): every occurrence is replaced
RECURSIVE ReplaceC(_)
ReplaceC(s) ==
    IF s = <<>> THEN <<>>
    ELSE (IF Head(s) = "C" THEN <<"C", "-">> ELSE <<Head(s)>>) \o ReplaceC(Tail(s))

\* decimal digits of a natural number, no padding
RECURSIVE IntDigits(_)
IntDigits(n) ==
    IF n < 10 THEN <<Digit[n + 1]>>
    ELSE IntDigits(n \div 10) \o <<Digit[(n % 10) + 1]>>

\* variant: the format spec d, no padding
Mut_Format03d(n) == IntDigits(n)

\* the format spec 03d: zero-padded to a minimum width of 3
PadWidth == 3
RECURSIVE ZeroPad(_, _)
ZeroPad(d, w) == IF Len(d) >= w THEN d ELSE ZeroPad(<<"0">> \o d, w)
Format03d(n) == ZeroPad(IntDigits(n), PadWidth)

\* value of a run of decimal digits (int of a digit string)
RECURSIVE DigitsValue(_)
DigitsValue(d) ==
    IF d = <<>> THEN 0
    ELSE 10 * DigitsValue(SubSeq(d, 1, Len(d) - 1)) + (IndexIn(Digit, d[Len(d)]) - 1)

\* number of digits at the start of s
LeadDigits(s) ==
    IF \A i \in 1..Len(s) : IsDigit(s[i]) THEN Len(s)
    ELSE (CHOOSE i \in 1..Len(s) :
             ~IsDigit(s[i]) /\ \A j \in 1..(i-1) : IsDigit(s[j])) - 1

-----------------------------------------------------------------------------
(* JSON values as the program reads them through dict.get *)

JStr(s) == [t |-> "str", s |-> s]
JAbsent == [t |-> "absent", s |-> <<>>]    \* the key is missing
JNull   == [t |-> "null", s |-> <<>>]      \* null: hashable, not a string
JList   == [t |-> "list", s |-> <<>>]      \* a JSON array: unhashable

\* coordinate_xyz; x and y in hundredths
CAbsent    == [t |-> "absent", x |-> 0, y |-> 0]
CEmpty     == [t |-> "empty", x |-> 0, y |-> 0]      \* {} is falsy
CXY(x, y)  == [t |-> "xy", x |-> x, y |-> y]
CXOnly(x)  == [t |-> "x_only", x |-> x, y |-> 0]     \* no "y": coord.get('y') is None

-----------------------------------------------------------------------------
(* HEADER, lines 24-39 *)

HEADER == <<"Placement Number", "AP Model", "Antenna Type", "Antenna Vendor",
            "Antenna Model", "Mount Type", "Mounting Bracket", "Mounting Adapter",
            "AP in Enclosure?", "Enclosure Model", "Antenna in Enclosure?",
            "Direction *", "Downtilt *", "Notes">>

-----------------------------------------------------------------------------
(* normalise_sheet_name, lines 42-50 *)

W_FLOOR == <<"f","l","o","o","r">>
OrdinalSuffixes == { <<"s","t">>, <<"n","d">>, <<"r","d">>, <<"t","h">> }

\* r matches \s+Floor$ under re.I
SpacesThenFloor(r) ==
    /\ Len(r) >= Len(W_FLOOR) + 1
    /\ StrLower(SubSeq(r, Len(r) - Len(W_FLOOR) + 1, Len(r))) = W_FLOOR
    /\ \A i \in 1..(Len(r) - Len(W_FLOOR)) : IsSpace(r[i])

\* s matches ^(\d+)(?:st|nd|rd|th)?\s+Floor$ under re.I
FloorReMatches(s) ==
    LET nd   == LeadDigits(s)
        rest == SubSeq(s, nd + 1, Len(s))
    IN  /\ nd >= 1
        /\ \/ SpacesThenFloor(rest)
           \/ /\ Len(rest) >= 2
              /\ StrLower(SubSeq(rest, 1, 2)) \in OrdinalSuffixes
              /\ SpacesThenFloor(SubSeq(rest, 3, Len(rest)))

\* match.group(1)
FloorReGroup1(s) == SubSeq(s, 1, LeadDigits(s))

SheetNameLimit == 31

normalise_sheet_name(name) ==
    IF FloorReMatches(StrStrip(name))
    THEN <<"F","l","o","o","r"," ">> \o FloorReGroup1(StrStrip(name))
    ELSE Truncate(StrTitle(name), SheetNameLimit)

-----------------------------------------------------------------------------
(* The workbook of the spreadsheet library, as main uses it, lines 75-88   *)
(* and 118-123.  A sheet is its title, its rows, whether row 1 is bold and *)
(* its freeze_panes cell.                                                  *)

DEFAULT_TITLE == <<"S","h","e","e","t">>

\* Workbook(): one default sheet, which is the active one
Workbook == << [title |-> DEFAULT_TITLE, rows |-> <<>>, bold |-> FALSE,
                freeze_panes |-> "None"] >>

\* variant: the default sheet is left in the workbook
Mut_RemoveActive(w) == w

\* wb.remove(wb.active) on the new workbook
RemoveActive(w) == Tail(w)

SheetNames(w) == [i \in 1..Len(w) |-> w[i].title]

\* characters a sheet title may not hold: the title setter raises ValueError
InvalidTitleChars == {"\\", "*", "?", ":", "/", "[", "]"}
TitleInvalid(title) == \E i \in 1..Len(title) : title[i] \in InvalidTitleChars

RECURSIVE JoinComma(_)
JoinComma(names) ==
    IF names = <<>> THEN <<>>
    ELSE IF Len(names) = 1 THEN names[1]
    ELSE names[1] \o <<",">> \o JoinComma(Tail(names))

\* the counts that follow the occurrences of value in the joined sheet names,
\* scanned from position p as re.findall does (case-insensitive, the digits
\* after the occurrence and one comma are consumed)
RECURSIVE TitleCounts(_, _, _)
TitleCounts(joined, value, p) ==
    IF p + Len(value) - 1 > Len(joined) THEN {}
    ELSE IF StrLower(SubSeq(joined, p, p + Len(value) - 1)) = StrLower(value)
    THEN LET after == SubSeq(joined, p + Len(value), Len(joined))
             nd    == LeadDigits(after)
             q     == p + Len(value) + nd
             next  == IF q <= Len(joined) /\ joined[q] = "," THEN q + 1 ELSE q
         IN  (IF nd > 0 THEN {DigitsValue(SubSeq(after, 1, nd))} ELSE {})
                 \cup TitleCounts(joined, value, next)
    ELSE TitleCounts(joined, value, p + 1)

SetMax(S) == IF S = {} THEN 0 ELSE CHOOSE m \in S : \A x \in S : x <= m

\* a title already in use (compared case-insensitively) gets the next free
\* number appended; no error is raised
AvoidDuplicateName(names, value) ==
    IF \E i \in 1..Len(names) : StrLower(names[i]) = StrLower(value)
    THEN value \o IntDigits(SetMax(TitleCounts(JoinComma(names), value, 1)) + 1)
    ELSE value

\* wb.create_sheet(title), for a title the setter accepts
create_sheet(w, title) ==
    Append(w, [title |-> AvoidDuplicateName(SheetNames(w),
                            IF title = <<>> THEN DEFAULT_TITLE ELSE title),
               rows |-> <<>>, bold |-> FALSE, freeze_panes |-> "None"])

\* lines 86-88 on the last sheet: row 1 in bold
BoldHeader(w) == [w EXCEPT ![Len(w)].bold = TRUE]

\* line 121 on the last sheet
FreezeHeader(w) == [w EXCEPT ![Len(w)].freeze_panes = "A2"]

\* ws.append(row) on the last sheet
AppendRow(w, row) == [w EXCEPT ![Len(w)].rows = Append(@, row)]

-----------------------------------------------------------------------------
(* The row builder, lines 91-117 *)

\* variant: numbered by idx, the enumerate index of the row within its floor
Mut_placement_number(counter) == <<"A","P","-">> \o Format03d(idx)

placement_number(counter) == <<"A","P","-">> \o Format03d(counter)

\* line 95-96
model_of(model_raw) ==
    IF StartsWith(StrLower(model_raw), <<"c">>) /\ ~Contains(model_raw, "-")
    THEN ReplaceC(StrUpper(model_raw))
    ELSE StrUpper(model_raw)

\* ap.get("model", "")
ModelRaw(ap) == IF ap.model.t = "absent" THEN JStr(<<>>) ELSE ap.model

\* format spec .1f of h/100, for h >= 0 that is no tie (h % 10 # 5)
FormatF1(h) ==
    LET tenths == IF h % 10 < 5 THEN h \div 10 ELSE (h \div 10) + 1
    IN  IntDigits(tenths \div 10) \o <<".">> \o <<Digit[(tenths % 10) + 1]>>

\* line 100, for coordinates that are truthy and hold x and y
coord_note(coord) ==
    <<"x","=">> \o FormatF1(coord.x) \o <<",", " ", "y", "=">> \o FormatF1(coord.y)

\* lines 102-117
Row(pn, model, note) ==
    <<pn, model, "Internal Omni", "N/A", "N/A", "Hard Ceiling",
      "<insert mounting bracket model>", "<insert mounting adapter model>",
      "No", "N/A", "N/A", "N/A", "N/A", note>>

-----------------------------------------------------------------------------
(* The record grouper, lines 69-73 *)

UNKNOWN_FLOOR == <<"U","n","k","n","o","w","n"," ","F","l","o","o","r">>

\* ap.get("floorplan_name", "Unknown Floor")
FloorOf(ap) ==
    IF ap.floorplan_name.t = "absent" THEN JStr(UNKNOWN_FLOOR) ELSE ap.floorplan_name

HasKey(d, k) == \E i \in 1..Len(d) : d[i].floor = k
KeyPos(d, k) == CHOOSE i \in 1..Len(d) : d[i].floor = k

\* variant: the record is inserted at the head of its floor's list
Mut_GroupAppend_Prepend(d, k, ref) ==
    IF HasKey(d, k)
    THEN [d EXCEPT ![KeyPos(d, k)].aps = <<ref>> \o @]
    ELSE Append(d, [floor |-> k, aps |-> <<ref>>])

\* variant: the records are grouped by normalised sheet name, so that floors
\* of the same sheet name share a list
SameSheet(k1, k2) ==
    IF k1.t = "str" /\ k2.t = "str"
    THEN normalise_sheet_name(k1.s) = normalise_sheet_name(k2.s)
    ELSE k1 = k2
Mut_GroupAppend_BySheetName(d, k, ref) ==
    IF \E i \in 1..Len(d) : SameSheet(d[i].floor, k)
    THEN [d EXCEPT ![CHOOSE i \in 1..Len(d) : SameSheet(d[i].floor, k)].aps =
                        Append(@, ref)]
    ELSE Append(d, [floor |-> k, aps |-> <<ref>>])

\* by_floor[floor].append(ap): a missing key is inserted last with an empty
\* list; the record is held by reference, here its position in aps
GroupAppend(d, k, ref) ==
    IF HasKey(d, k)
    THEN [d EXCEPT ![KeyPos(d, k)].aps = Append(@, ref)]
    ELSE Append(d, [floor |-> k, aps |-> <<ref>>])

-----------------------------------------------------------------------------
(* Inputs *)

S_1ST_FLOOR == <<"1","s","t"," ","F","l","o","o","r">>
S_1_FLOOR   == <<"1"," ","F","l","o","o","r">>
S_11_FLOOR  == <<"1","1"," ","f","l","o","o","r">>
S_LOBBY     == <<"l","o","b","b","y">>
S_B_SLASH_2 == <<"B","/","2">>
S_C9130     == <<"c","9","1","3","0">>
S_AP_105    == <<"a","p","-","1","0","5">>
S_C9C       == <<"c","9","c">>
S_AIR_AP    == <<"A","I","R","-","A","P">>

AP(floor, model, coord) ==
    [floorplan_name |-> floor, model |-> model, coordinate_xyz |-> coord]

\* access-point records: six that build a row, two that fail in the row
\* builder, three whose floor name fails in grouping or in sheet creation
Records ==
    { AP(JStr(S_1ST_FLOOR), JStr(S_C9130), CAbsent),
      AP(JStr(S_1_FLOOR), JStr(S_AP_105), CXY(1234, 560)),
      AP(JStr(S_LOBBY), JStr(S_C9C), CEmpty),
      AP(JAbsent, JAbsent, CAbsent),
      AP(JStr(UNKNOWN_FLOOR), JStr(S_AIR_AP), CXY(0, 1999)),
      AP(JStr(S_1ST_FLOOR), JNull, CAbsent),
      AP(JStr(S_LOBBY), JStr(S_C9130), CXOnly(1234)),
      AP(JNull, JStr(S_C9130), CAbsent),
      AP(JList, JStr(S_C9130), CAbsent),
      AP(JStr(S_B_SLASH_2), JStr(S_C9130), CAbsent),
      AP(JStr(S_11_FLOOR), JStr(S_C9130), CAbsent) }

SeqsUpTo(S, n) == UNION { [1..k -> S] : k \in 0..n }

\* the files json.load may find: not JSON, an object without "accesspoints",
\* an object with the list
JsonFiles ==
    { [ok |-> FALSE, has_key |-> FALSE, accesspoints |-> <<>>],
      [ok |-> TRUE, has_key |-> FALSE, accesspoints |-> <<>>] }
    \cup { [ok |-> TRUE, has_key |-> TRUE, accesspoints |-> a] :
             a \in SeqsUpTo(Records, MaxAPs) }

ArgvLens == {2, 3, 4}

NO_WORKBOOK == [created |-> FALSE, sheets |-> <<>>]
NO_FILE     == [state |-> "none", sheets |-> <<>>]
NOT_CALLED  == [done |-> FALSE, v |-> <<>>]

-----------------------------------------------------------------------------
(* main, lines 53-124 *)

Init ==
    /\ argv_len \in ArgvLens
    /\ json_file \in JsonFiles
    /\ pc = "start"
    /\ aps = <<>>
    /\ by_floor = <<>>
    /\ gi = 0
    /\ wb = NO_WORKBOOK
    /\ fi = 0
    /\ idx = 0
    /\ placement_counter = 0
    /\ out_file = NO_FILE
    /\ exit_code = -1
    /\ raised = ""
    /\ fn_arg = <<>>
    /\ fn_ret = NOT_CALLED

\* sys.exit(1)
Exit1 == pc' = "exit" /\ exit_code' = 1 /\ raised' = ""

\* an uncaught exception: traceback, exit status 1
Raise(e) == pc' = "exit" /\ exit_code' = 1 /\ raised' = e

\* lines 54-59
CheckArgs ==
    /\ pc = "start"
    /\ \/ /\ argv_len # 3
          /\ Exit1
       \/ /\ argv_len = 3
          /\ pc' = "load"
          /\ UNCHANGED <<exit_code, raised>>
    /\ UNCHANGED <<argv_len, json_file, aps, by_floor, gi, wb, fi, idx,
                   placement_counter, out_file, fn_arg, fn_ret>>

\* lines 61-64
LoadJson ==
    /\ pc = "load"
    /\ \/ /\ ~json_file.ok
          /\ Raise("JSONDecodeError")
          /\ aps' = aps
       \/ /\ json_file.ok
          /\ aps' = IF json_file.has_key THEN json_file.accesspoints ELSE <<>>
          /\ pc' = "check"
          /\ UNCHANGED <<exit_code, raised>>
    /\ UNCHANGED <<argv_len, json_file, by_floor, gi, wb, fi, idx,
                   placement_counter, out_file, fn_arg, fn_ret>>

\* variant: the empty list is not rejected
Mut_CheckAps ==
    /\ pc = "check"
    /\ by_floor' = <<>>
    /\ gi' = 1
    /\ pc' = "group"
    /\ UNCHANGED <<argv_len, json_file, aps, wb, fi, idx, placement_counter,
                   out_file, exit_code, raised, fn_arg, fn_ret>>

\* lines 65-70
CheckAps ==
    /\ pc = "check"
    /\ \/ /\ aps = <<>>
          /\ Exit1
          /\ UNCHANGED <<by_floor, gi>>
       \/ /\ aps # <<>>
          /\ by_floor' = <<>>
          /\ gi' = 1
          /\ pc' = "group"
          /\ UNCHANGED <<exit_code, raised>>
    /\ UNCHANGED <<argv_len, json_file, aps, wb, fi, idx,
                   placement_counter, out_file, fn_arg, fn_ret>>

\* lines 71-73, one iteration
GroupStep ==
    /\ pc = "group"
    /\ gi <= Len(aps)
    /\ \/ /\ FloorOf(aps[gi]).t = "list"
          /\ Raise("TypeError")
          /\ UNCHANGED <<by_floor, gi>>
       \/ /\ FloorOf(aps[gi]).t # "list"
          /\ by_floor' = GroupAppend(by_floor, FloorOf(aps[gi]), gi)
          /\ gi' = gi + 1
          /\ UNCHANGED <<pc, exit_code, raised>>
    /\ UNCHANGED <<argv_len, json_file, aps, wb, fi, idx,
                   placement_counter, out_file, fn_arg, fn_ret>>

\* variant: the counter starts at 0
Mut_NewWorkbook ==
    /\ pc = "group"
    /\ gi > Len(aps)
    /\ wb' = [created |-> TRUE, sheets |-> RemoveActive(Workbook)]
    /\ placement_counter' = 0
    /\ fi' = 1
    /\ pc' = "floor"
    /\ UNCHANGED <<argv_len, json_file, aps, by_floor, gi, idx,
                   out_file, exit_code, raised, fn_arg, fn_ret>>

\* lines 75-79
NewWorkbook ==
    /\ pc = "group"
    /\ gi > Len(aps)
    /\ wb' = [created |-> TRUE, sheets |-> RemoveActive(Workbook)]
    /\ placement_counter' = 1
    /\ fi' = 1
    /\ pc' = "floor"
    /\ UNCHANGED <<argv_len, json_file, aps, by_floor, gi, idx,
                   out_file, exit_code, raised, fn_arg, fn_ret>>

\* lines 80-88: the sheet of the next floor, with its bold header
BeginFloor ==
    /\ pc = "floor"
    /\ fi <= Len(by_floor)
    /\ LET floor_name == by_floor[fi].floor
       IN  \/ /\ floor_name.t # "str"
              /\ Raise("AttributeError")
              /\ UNCHANGED <<wb, idx>>
           \/ /\ floor_name.t = "str"
              /\ TitleInvalid(normalise_sheet_name(floor_name.s))
              /\ Raise("ValueError")
              /\ UNCHANGED <<wb, idx>>
           \/ /\ floor_name.t = "str"
              /\ ~TitleInvalid(normalise_sheet_name(floor_name.s))
              /\ wb' = [wb EXCEPT !.sheets =
                          BoldHeader(AppendRow(
                              create_sheet(@, normalise_sheet_name(floor_name.s)),
                              HEADER))]
              /\ idx' = 1
              /\ pc' = "row"
              /\ UNCHANGED <<exit_code, raised>>
    /\ UNCHANGED <<argv_len, json_file, aps, by_floor, gi, fi,
                   placement_counter, out_file, fn_arg, fn_ret>>

\* lines 90-118, one iteration
BuildRow ==
    /\ pc = "row"
    /\ idx <= Len(by_floor[fi].aps)
    /\ placement_counter' = placement_counter + 1
    /\ LET ap == aps[by_floor[fi].aps[idx]]
       IN  \/ /\ ModelRaw(ap).t # "str"
              /\ Raise("AttributeError")
              /\ UNCHANGED <<wb, idx>>
           \/ /\ ModelRaw(ap).t = "str"
              /\ ap.coordinate_xyz.t = "x_only"
              /\ Raise("TypeError")
              /\ UNCHANGED <<wb, idx>>
           \/ /\ ModelRaw(ap).t = "str"
              /\ ap.coordinate_xyz.t # "x_only"
              /\ wb' = [wb EXCEPT !.sheets =
                          AppendRow(@, Row(placement_number(placement_counter),
                                           model_of(ModelRaw(ap).s),
                                           IF ap.coordinate_xyz.t = "xy"
                                           THEN coord_note(ap.coordinate_xyz)
                                           ELSE <<>>))]
              /\ idx' = idx + 1
              /\ UNCHANGED <<pc, exit_code, raised>>
    /\ UNCHANGED <<argv_len, json_file, aps, by_floor, gi, fi,
                   out_file, fn_arg, fn_ret>>

\* variant: the workbook is saved at the end of every floor
Mut_EndFloor ==
    /\ pc = "row"
    /\ idx > Len(by_floor[fi].aps)
    /\ wb' = [wb EXCEPT !.sheets = FreezeHeader(@)]
    /\ out_file' = [state |-> "workbook", sheets |-> wb'.sheets]
    /\ fi' = fi + 1
    /\ pc' = "floor"
    /\ UNCHANGED <<argv_len, json_file, aps, by_floor, gi, idx,
                   placement_counter, exit_code, raised, fn_arg, fn_ret>>

\* lines 120-121, and the step to the next floor
EndFloor ==
    /\ pc = "row"
    /\ idx > Len(by_floor[fi].aps)
    /\ wb' = [wb EXCEPT !.sheets = FreezeHeader(@)]
    /\ fi' = fi + 1
    /\ pc' = "floor"
    /\ UNCHANGED <<argv_len, json_file, aps, by_floor, gi, idx,
                   placement_counter, out_file, exit_code, raised, fn_arg, fn_ret>>

\* lines 123-124: the file is written whole, or the write fails and leaves
\* nothing or a truncated file
Save ==
    /\ pc = "floor"
    /\ fi > Len(by_floor)
    /\ \/ /\ out_file' = [state |-> "workbook", sheets |-> wb.sheets]
          /\ pc' = "exit"
          /\ exit_code' = 0
          /\ raised' = ""
       \/ /\ out_file' \in {NO_FILE, [state |-> "truncated", sheets |-> <<>>]}
          /\ Raise("OSError")
    /\ UNCHANGED <<argv_len, json_file, aps, by_floor, gi, wb, fi, idx,
                   placement_counter, fn_arg, fn_ret>>

Next ==
    \/ CheckArgs
    \/ LoadJson
    \/ CheckAps
    \/ GroupStep
    \/ NewWorkbook
    \/ BeginFloor
    \/ BuildRow
    \/ EndFloor
    \/ Save

Spec == Init /\ [][Next]_vars

-----------------------------------------------------------------------------
(* normalise_sheet_name applied on its own to generated floor names *)

DigitRun(n) == [i \in 1..n |-> Digit[(i % 10) + 1]]

FillPattern == <<"w","e","s","t"," ","w","i","n","g","-","b"," ">>
Fill(n) == [i \in 1..n |-> FillPattern[((i - 1) % Len(FillPattern)) + 1]]

NumberedNames ==
    { lead \o DigitRun(n) \o suffix \o gap \o word \o trail :
        lead \in { <<>>, <<" ">> },
        n \in 0..MaxDigits,
        suffix \in { <<>>, <<"s","t">>, <<"n","d">>, <<"r","d">>, <<"T","H">>,
                     <<"x","y">> },
        gap \in { <<>>, <<" ">>, <<" ","\t">> },
        word \in { <<"F","l","o","o","r">>, <<"f","L","O","O","R">>,
                   <<"F","l","o","o","r","s">>, <<"F","l","o"," ","o","r">> },
        trail \in { <<>>, <<"\n">> } }

FloorNames == NumberedNames \cup { Fill(n) : n \in 0..MaxFill }

IdleMain ==
    /\ argv_len = 3
    /\ json_file = [ok |-> TRUE, has_key |-> FALSE, accesspoints |-> <<>>]
    /\ aps = <<>>
    /\ by_floor = <<>>
    /\ gi = 0
    /\ wb = NO_WORKBOOK
    /\ fi = 0
    /\ idx = 0
    /\ placement_counter = 0
    /\ out_file = NO_FILE
    /\ exit_code = -1
    /\ raised = ""

InitNormalise ==
    /\ IdleMain
    /\ pc = "normalise_sheet_name"
    /\ fn_arg \in FloorNames
    /\ fn_ret = NOT_CALLED

CallNormalise ==
    /\ pc = "normalise_sheet_name"
    /\ ~fn_ret.done
    /\ fn_ret' = [done |-> TRUE, v |-> normalise_sheet_name(fn_arg)]
    /\ UNCHANGED <<main_vars, fn_arg>>

NextNormalise == CallNormalise

SpecNormalise == InitNormalise /\ [][NextNormalise]_vars

-----------------------------------------------------------------------------
(* The placement-number format of line 91 applied on its own to counter    *)
(* values beyond those the main specification reaches                      *)

InitFormat ==
    /\ IdleMain
    /\ pc = "placement_number"
    /\ fn_arg \in 1..MaxCounter
    /\ fn_ret = NOT_CALLED

CallFormat ==
    /\ pc = "placement_number"
    /\ ~fn_ret.done
    /\ fn_ret' = [done |-> TRUE, v |-> placement_number(fn_arg)]
    /\ UNCHANGED <<main_vars, fn_arg>>

NextFormat == CallFormat

SpecFormat == InitFormat /\ [][NextFormat]_vars

-----------------------------------------------------------------------------
(* Reading the input and the workbook, for the properties below *)

RECURSIVE AscSeq(_)
AscSeq(S) ==
    IF S = {} THEN <<>>
    ELSE LET m == CHOOSE x \in S : \A y \in S : x <= y
         IN  <<m>> \o AscSeq(S \ {m})

\* positions of the records that are the first of their floor, ascending
FirstIdx(a) ==
    AscSeq({ i \in 1..Len(a) : \A j \in 1..(i-1) : FloorOf(a[j]) # FloorOf(a[i]) })

\* positions of the records on floor f, ascending
OnFloor(a, f) == AscSeq({ i \in 1..Len(a) : FloorOf(a[i]) = f })

\* the floor of the i-th sheet: the i-th floor in first-seen order
SheetFloor(a, i) == FloorOf(a[FirstIdx(a)[i]])

DistinctFloors(a) == { FloorOf(a[i]) : i \in 1..Len(a) }

\* no record of another floor lies between two records of one floor
Contiguous(a) ==
    \A i, j, k \in 1..Len(a) :
        (i < j /\ j < k /\ FloorOf(a[i]) = FloorOf(a[k])) => FloorOf(a[j]) = FloorOf(a[i])

DataRows(sheet) == Tail(sheet.rows)

RECURSIVE AllDataRows(_)
AllDataRows(w) == IF w = <<>> THEN <<>> ELSE DataRows(w[1]) \o AllDataRows(Tail(w))

AP_PREFIX == <<"A","P","-">>

AllDigits(s) == \A i \in 1..Len(s) : IsDigit(s[i])

\* the digits of a placement number, after "AP-"
PnDigits(pn) == SubSeq(pn, Len(AP_PREFIX) + 1, Len(pn))

WellFormedPn(pn) ==
    StartsWith(pn, AP_PREFIX) /\ Len(PnDigits(pn)) >= 1 /\ AllDigits(PnDigits(pn))

CounterOf(row) == DigitsValue(PnDigits(row[1]))

Written == out_file.state = "workbook"

-----------------------------------------------------------------------------
(* C1: the placement numbers are 1, 2, 3, ... over the whole document: read *)
(* sheet by sheet and top to bottom, the k-th data row carries counter      *)
(* value k, with no reset at a floor boundary, and the written file holds   *)
(* exactly the values 1..N.                                                 *)
C1_PlacementNumbersGlobal ==
    LET rows == AllDataRows(wb.sheets)
    IN  /\ \A k \in 1..Len(rows) :
              WellFormedPn(rows[k][1]) /\ CounterOf(rows[k]) = k
        /\ Written => /\ AllDataRows(out_file.sheets) = rows
                      /\ Len(rows) = Len(aps)

\* a written workbook of three rows whose second sheet starts above 1
C1_Witness ==
    /\ Written
    /\ Len(aps) = 3
    /\ Len(out_file.sheets) >= 2
    /\ CounterOf(DataRows(out_file.sheets[2])[1]) >= 2

-----------------------------------------------------------------------------
(* C2: the written workbook has exactly one sheet per distinct floor name   *)
(* (a record without the field counts as "Unknown Floor"), in the order in  *)
(* which the names first appear, and no default or blank sheet remains.     *)
TitleOfFloor(title, name) ==
    LET n    == normalise_sheet_name(name)
        base == IF n = <<>> THEN DEFAULT_TITLE ELSE n
    IN  StartsWith(title, base) /\ AllDigits(SubSeq(title, Len(base) + 1, Len(title)))

\* C2: one sheet per distinct floor name, in first-seen order, under titles
\* of their own, each with the header and data; no blank sheet.
C2_OneSheetPerFloor ==
    Written =>
        LET s == out_file.sheets
        IN  /\ Len(s) = Cardinality(DistinctFloors(aps))
            /\ Len(s) = Len(FirstIdx(aps))
            /\ \A i \in 1..Len(s) :
                  /\ SheetFloor(aps, i).t = "str"
                  /\ TitleOfFloor(s[i].title, SheetFloor(aps, i).s)
                  /\ s[i].rows # <<>>
                  /\ s[i].rows[1] = HEADER
                  /\ Len(s[i].rows) >= 2
            /\ \A i, j \in 1..Len(s) : i # j => s[i].title # s[j].title

\* a written workbook of three floors, one of them the default floor name
C2_Witness ==
    /\ Written
    /\ Len(out_file.sheets) = 3
    /\ \E i \in 1..Len(aps) : aps[i].floorplan_name.t = "absent"

-----------------------------------------------------------------------------
(* C3: normalise_sheet_name returns at most 31 characters for every floor   *)
(* name, numbered-floor names with a long integer part included.            *)
C3_TitleAtMost31 ==
    (pc = "normalise_sheet_name" /\ fn_ret.done) => Len(fn_ret.v) <= SheetNameLimit

-----------------------------------------------------------------------------
(* C4: the model cell of every row is the upper-cased raw model with one    *)
(* hyphen inserted after the leading "C" when the raw model starts with     *)
(* "c"/"C" and has no hyphen, and the upper-cased raw model otherwise.      *)
OneHyphenModel(model_raw) ==
    IF StartsWith(StrLower(model_raw), <<"c">>) /\ ~Contains(model_raw, "-")
    THEN <<"C", "-">> \o Tail(StrUpper(model_raw))
    ELSE StrUpper(model_raw)

\* C4: every model cell is the one-hyphen normalisation of its record's raw
\* model.
C4_OneHyphenAfterLeadingC ==
    \A i \in 1..Len(wb.sheets) :
        \A k \in 1..Len(DataRows(wb.sheets[i])) :
            LET ap == aps[OnFloor(aps, SheetFloor(aps, i))[k]]
            IN  DataRows(wb.sheets[i])[k][2] = OneHyphenModel(ModelRaw(ap).s)

-----------------------------------------------------------------------------
(* C5: all or nothing.  The output file is written only after every sheet   *)
(* and every row of every floor has been built, and it then holds the whole *)
(* workbook; a run that fails on its arguments, on the JSON, on an empty    *)
(* list, in grouping, in sheet creation or in the row builder ends with no  *)
(* output file.                                                             *)
Complete(s) ==
    /\ Len(s) = Len(by_floor)
    /\ \A i \in 1..Len(s) :
          /\ Len(s[i].rows) = 1 + Len(by_floor[i].aps)
          /\ s[i].freeze_panes = "A2"
    /\ Len(AllDataRows(s)) = Len(aps)

\* C5: a file exists only once the whole workbook is built, and no failure
\* before the save leaves a file.
C5_AllOrNothing ==
    /\ out_file.state # "none" =>
          /\ pc = "exit"
          /\ gi > Len(aps)
          /\ fi > Len(by_floor)
          /\ Complete(wb.sheets)
    /\ Written => out_file.sheets = wb.sheets
    /\ (pc = "exit" /\ exit_code # 0 /\ raised # "OSError") => out_file = NO_FILE

\* a run that failed in the row builder after a row had been appended
C5_Witness ==
    /\ pc = "exit"
    /\ raised = "TypeError"
    /\ wb.created
    /\ Len(AllDataRows(wb.sheets)) >= 1
    /\ out_file = NO_FILE

-----------------------------------------------------------------------------
(* C6: with an empty or absent accesspoints list main exits with status 1   *)
(* before a workbook exists and writes no file; with a non-empty list and   *)
(* no fault it runs on to the save and exits with status 0.                 *)
EmptyInput == argv_len = 3 /\ json_file.ok
              /\ (~json_file.has_key \/ json_file.accesspoints = <<>>)

\* C6, the exit codes: empty input exits 1 with no workbook and no file; a
\* non-empty input without fault exits 0 after the save.
C6_ExitCodes ==
    /\ EmptyInput => (~wb.created /\ out_file = NO_FILE)
    /\ (EmptyInput /\ pc = "exit") => (exit_code = 1 /\ raised = "")
    /\ (argv_len = 3 /\ json_file.ok /\ ~EmptyInput /\ pc = "exit" /\ raised = "")
          => (exit_code = 0 /\ Written /\ fi > Len(by_floor))

\* main is not stuck before its exit: the step of its position can be taken
C6_CanStep ==
    \/ pc \in {"start", "load", "check", "group", "floor", "exit"}
    \/ pc = "row" /\ fi \in 1..Len(by_floor)

\* an upper bound on the steps main has left, 0 at its exit
C6_StepsLeft ==
    LET n     == Len(json_file.accesspoints)
        built == Len(AllDataRows(wb.sheets))
    IN  CASE pc = "start" -> 4 * n + 6
          [] pc = "load"  -> 4 * n + 5
          [] pc = "check" -> 4 * n + 4
          [] pc = "group" -> (Len(aps) - gi + 1) + 3 * Len(aps) + 2
          [] pc = "floor" -> 2 * (Len(by_floor) - fi + 1) + (Len(aps) - built) + 1
          [] pc = "row"   -> 2 * (Len(by_floor) - fi) + 1 + (Len(aps) - built) + 1
          [] OTHER        -> 0

\* C6: the exit codes above hold in every state, main is never stuck before
\* its exit, and every step brings the exit nearer.
C6_EmptyInputExit ==
    /\ [](C6_ExitCodes /\ C6_CanStep /\ C6_StepsLeft >= 0)
    /\ [][C6_StepsLeft' < C6_StepsLeft]_vars

\* the exit of a run whose JSON has no accesspoints key
C6_Witness ==
    /\ pc = "exit"
    /\ argv_len = 3
    /\ json_file.ok
    /\ ~json_file.has_key
    /\ exit_code = 1

-----------------------------------------------------------------------------
(* C7: two different floor names with the same normalised sheet name.       *)

\* two different floor names of the input normalise to the same sheet name
Collision(a) ==
    \E i, j \in 1..Len(a) :
        /\ FloorOf(a[i]) # FloorOf(a[j])
        /\ FloorOf(a[i]).t = "str"
        /\ FloorOf(a[j]).t = "str"
        /\ normalise_sheet_name(FloorOf(a[i]).s) = normalise_sheet_name(FloorOf(a[j]).s)

\* a record that makes the run fail whatever the other floors are called
Faulty(ap) ==
    \/ FloorOf(ap).t # "str"
    \/ TitleInvalid(normalise_sheet_name(FloorOf(ap).s))
    \/ ModelRaw(ap).t # "str"
    \/ ap.coordinate_xyz.t = "x_only"

-----------------------------------------------------------------------------
(* C8: on success each sheet holds the 14-column header and then one        *)
(* 14-field row per record of its floor, in input order; every record has   *)
(* one row in one sheet, N data rows in all.                                *)
RowOfRecord(row, ap) ==
    /\ Len(row) = 14
    /\ row[2] = model_of(ModelRaw(ap).s)
    /\ SubSeq(row, 3, 13) = <<"Internal Omni", "N/A", "N/A", "Hard Ceiling",
                              "<insert mounting bracket model>",
                              "<insert mounting adapter model>",
                              "No", "N/A", "N/A", "N/A", "N/A">>
    /\ row[14] = IF ap.coordinate_xyz.t = "xy" THEN coord_note(ap.coordinate_xyz)
                 ELSE <<>>

\* C8: sheet i is the header and then the rows of the records of the i-th
\* floor, in input order; N data rows in all.
C8_RowsPerFloorInOrder ==
    Written =>
        LET s == out_file.sheets
        IN  /\ Len(s) = Len(FirstIdx(aps))
            /\ \A i \in 1..Len(s) :
                  LET recs == OnFloor(aps, SheetFloor(aps, i))
                  IN  /\ Len(s[i].rows) = 1 + Len(recs)
                      /\ s[i].rows[1] = HEADER
                      /\ Len(s[i].rows[1]) = 14
                      /\ s[i].bold
                      /\ \A k \in 1..Len(recs) :
                            RowOfRecord(s[i].rows[k + 1], aps[recs[k]])
            /\ Len(AllDataRows(s)) = Len(aps)

\* a written sheet with two rows of different records, after another sheet
C8_Witness ==
    /\ Written
    /\ Len(out_file.sheets) = 2
    /\ Len(out_file.sheets[2].rows) = 3
    /\ out_file.sheets[2].rows[2][2] # out_file.sheets[2].rows[3][2]

-----------------------------------------------------------------------------
(* C9: the form of a placement number.                                      *)

RECURSIVE NumDigits(_)
NumDigits(n) == IF n < 10 THEN 1 ELSE 1 + NumDigits(n \div 10)

\* C9 as claimed: "AP-" and exactly three decimal digits, for every counter
\* value.
C9_ExactlyThreeDigits ==
    (pc = "placement_number" /\ fn_ret.done) =>
        /\ WellFormedPn(fn_ret.v)
        /\ Len(PnDigits(fn_ret.v)) = 3

\* C9 as amended: "AP-" and the counter value in decimal, zero-padded to at
\* least three digits: three digits up to 999, all its digits above.
C9_AtLeastThreeDigits ==
    (pc = "placement_number" /\ fn_ret.done) =>
        /\ WellFormedPn(fn_ret.v)
        /\ DigitsValue(PnDigits(fn_ret.v)) = fn_arg
        /\ Len(PnDigits(fn_ret.v)) = IF fn_arg <= 999 THEN 3 ELSE NumDigits(fn_arg)

\* counter value 1000 formatted with four digits
C9_Witness ==
    /\ pc = "placement_number"
    /\ fn_ret.done
    /\ fn_arg = 1000
    /\ Len(PnDigits(fn_ret.v)) = 4

-----------------------------------------------------------------------------
(* C10: the numbers follow the grouped order.  A record's counter value is  *)
(* 1 + the records on floors first seen before its floor + the earlier      *)
(* records of its own floor; the numbers of a sheet are consecutive; every  *)
(* record's number equals its input position exactly when the records of    *)
(* each floor are contiguous in the input.                                  *)
FirstPos(a, f) ==
    CHOOSE i \in 1..Len(a) :
        FloorOf(a[i]) = f /\ \A j \in 1..(i-1) : FloorOf(a[j]) # f

GroupedPosition(a, r) ==
    1 + Cardinality({ j \in 1..Len(a) :
                        FirstPos(a, FloorOf(a[j])) < FirstPos(a, FloorOf(a[r])) })
      + Cardinality({ j \in 1..(r-1) : FloorOf(a[j]) = FloorOf(a[r]) })

\* the record behind the k-th data row of the i-th sheet
RecordOfRow(a, i, k) == OnFloor(a, SheetFloor(a, i))[k]

\* C10: counter value = grouped position; consecutive within a sheet; equal
\* to the input position for all records exactly when floors are contiguous.
C10_GroupedOrder ==
    LET s == wb.sheets
    IN  /\ \A i \in 1..Len(s) :
              \A k \in 1..Len(DataRows(s[i])) :
                  /\ CounterOf(DataRows(s[i])[k])
                        = GroupedPosition(aps, RecordOfRow(aps, i, k))
                  /\ k > 1 => CounterOf(DataRows(s[i])[k])
                                 = CounterOf(DataRows(s[i])[k - 1]) + 1
        /\ Written =>
              ( (\A i \in 1..Len(s) :
                    \A k \in 1..Len(DataRows(s[i])) :
                        CounterOf(DataRows(s[i])[k]) = RecordOfRow(aps, i, k))
                <=> Contiguous(aps) )

\* a written workbook of interleaved floors: the second input record got a
\* number other than 2
C10_Witness ==
    /\ Written
    /\ ~Contiguous(aps)
    /\ \E i \in 1..Len(wb.sheets) :
          \E k \in 1..Len(DataRows(wb.sheets[i])) :
              /\ RecordOfRow(aps, i, k) = 2
              /\ CounterOf(DataRows(wb.sheets[i])[k]) # 2

====
